---- MODULE Spec2Model ----
(***************************************************************************)
(* A model of lscsi.c: the sp_ SCSI pass thru session over Linux SG_IO.     *)
(* The state is struct sp (the sg_io_hdr_t request record, the file        *)
(* descriptor and the session's own sense buffer), the caller's sense      *)
(* buffer, the process' open descriptors and errno.  Each exported         *)
(* function of lscsi.c is one action.                                      *)
(***************************************************************************)
EXTENDS Integers, Sequences, FiniteSets, TLC

VARIABLES fd, sih, mem, osOpen, errno, pc, last, dec

vars == <<fd, sih, mem, osOpen, errno, pc, last, dec>>

----------------------------------------------------------------------------
(* C int: 32 bit two's complement.                                         *)

MaxInt == 2147483647
MinInt == (-2147483647) - 1

\* a + b of two C ints, wrapped to 32 bits
WrapAdd(a, b) ==
    IF a >= 0 /\ b >= 0 /\ a > MaxInt - b THEN (a + MinInt) + (b + MinInt)
    ELSE IF a < 0 /\ b < 0 /\ a < MinInt - b THEN (a - MinInt) + (b - MinInt)
    ELSE a + b

\* a * n for a natural n, wrapped to 32 bits
RECURSIVE WrapMul(_, _)
WrapMul(a, n) ==
    IF n = 0 THEN 0
    ELSE LET h == WrapMul(a, n \div 2)
             d == WrapAdd(h, h)
         IN  IF n % 2 = 1 THEN WrapAdd(d, a) ELSE d

\* the product a * n leaves the range of int
MulOverflows(a, n) ==
    IF a >= 0 THEN a > MaxInt \div n ELSE (-(a + 1)) > MaxInt \div n

\* a + b leaves the range of int
AddOverflows(a, b) ==
    \/ a >= 0 /\ b >= 0 /\ a > MaxInt - b
    \/ a < 0 /\ b < 0 /\ a < MinInt - b

\* C's / truncates toward zero (b > 0)
CDiv(a, b) == IF a >= 0 THEN a \div b ELSE -((-a) \div b)

\* -x of a C int
WrapNeg(x) == IF x = MinInt THEN MinInt ELSE -x

\* the low 31 bits of a C int, and its sign bit
Low31(x) == IF x < 0 THEN x - MinInt ELSE x

RECURSIVE OrNat(_, _)
OrNat(a, b) ==
    IF a = 0 THEN b
    ELSE IF b = 0 THEN a
    ELSE 2 * OrNat(a \div 2, b \div 2) + (IF a % 2 = 1 \/ b % 2 = 1 THEN 1 ELSE 0)

RECURSIVE AndNat(_, _)
AndNat(a, b) ==
    IF a = 0 \/ b = 0 THEN 0
    ELSE 2 * AndNat(a \div 2, b \div 2) + (IF a % 2 = 1 /\ b % 2 = 1 THEN 1 ELSE 0)

\* a | b
BitOr(a, b) ==
    LET low == OrNat(Low31(a), Low31(b))
    IN  IF a < 0 \/ b < 0 THEN MinInt + low ELSE low

\* a & b
BitAnd(a, b) ==
    LET low == AndNat(Low31(a), Low31(b))
    IN  IF a < 0 /\ b < 0 THEN MinInt + low ELSE low

----------------------------------------------------------------------------
(* The exit int bits of "xscsi.h" (spec.md section 6): one failure marker  *)
(* that no nonnegative residue equals, five flag bits, three fields.       *)

SP_THRU       == MinInt       \* 0x80000000 pass thru failed
SP_DATA_THRU  == 1073741824   \* 0x40000000 data not counted
SP_SENSE_THRU == 536870912    \* 0x20000000 sense not counted
SP_RESIDUE    == 268435456    \* 0x10000000 nonzero residue
SP_SENSE      == 134217728    \* 0x08000000 intelligible sense
SP_DEFERRED   == 67108864     \* 0x04000000 deferred sense
SP_SK         == 983040       \* 0x000F0000
SP_ASC        == 65280        \* 0x0000FF00
SP_ASCQ       == 255          \* 0x000000FF

SP_FLAGS == {SP_DATA_THRU, SP_SENSE_THRU, SP_RESIDUE, SP_SENSE, SP_DEFERRED}

----------------------------------------------------------------------------
(* Sense bytes: an array of SenseBytes chars, chars[i] is At(chars, i).    *)

SenseBytes == 18

At(chars, i) == chars[i + 1]

\* Zero all but the least significant set bit of a mask.
lsb(mask) == BitAnd(mask, WrapNeg(mask))

\* Require minimal sense: if (2 < length)
minimal_sense_of_two(length) == 2 <= length
minimal_sense(length) == 2 < length

\* the length int_from_sense goes on with after the additional length
clamp_length_ignored(chars, length) == length
clamp_length(chars, length) ==
    IF 7 < length
    THEN LET al == BitAnd(At(chars, 7), 255)
         IN  IF al # 0
             THEN LET max == 7 + 1 + al
                  IN  IF max < length THEN max ELSE length
             ELSE length
    ELSE length

\* Construct an sp_read/ sp_write exit int from bits of auto sense.
int_from_sense(chars, length) ==
    IF minimal_sense(length)
    THEN LET sk == BitAnd(At(chars, 2), 15)
             response_code == BitAnd(At(chars, 0), 127)
         IN  IF response_code = 112 \/ response_code = 113
             THEN LET e0 == BitOr(SP_THRU, SP_SENSE)
                      e1 == IF response_code # 112 THEN BitOr(e0, SP_DEFERRED) ELSE e0
                      e2 == BitOr(e1, sk * lsb(SP_SK))
                      len == clamp_length(chars, length)
                      e3 == IF 12 < len
                            THEN BitOr(e2, BitAnd(At(chars, 12), 255) * lsb(SP_ASC))
                            ELSE e2
                      e4 == IF 13 < len
                            THEN BitOr(e3, BitAnd(At(chars, 13), 255) * lsb(SP_ASCQ))
                            ELSE e3
                  IN  e4
             ELSE SP_THRU
    ELSE SP_THRU

----------------------------------------------------------------------------
(* Program constants.                                                      *)

USUAL_SENSE   == 18           \* 0x12
USUAL_SECONDS == 28 * 60 * 60
SG_DXFER_NONE     == -1
SG_DXFER_TO_DEV   == -2
SG_DXFER_FROM_DEV == -3
SG_INFO_OK_MASK == 1
SG_INFO_OK      == 0
MinVersion == 30000
EINVAL == 22
ENOENT == 2
EBADF  == 9

(* Bounds of the model.                                                    *)

MaxOpen == 2                  \* descriptors the process may hold open
FirstFd == 3

----------------------------------------------------------------------------
(* struct sp: sih is the sg_io_hdr_t, fd the descriptor, mem["sp_sense"]   *)
(* the first SenseBytes chars of sp->sense; mem["bufA"] is a sense buffer  *)
(* of the caller.  Pointers are names.  The unsigned int fields timeout    *)
(* and dxfer_len hold their 32 bit pattern as a C int.                     *)

ZeroSense == [i \in 1..SenseBytes |-> 0]

\* [0x70,0,5,0,0,0,0,0x0A,0,0,0,0,0x21,0x22]: current, SK 5, ASC 21 ASCQ 22
CurrentSense == [i \in 1..SenseBytes |->
    CASE i = 1 -> 112 [] i = 3 -> 5 [] i = 8 -> 10 [] i = 13 -> 33 [] i = 14 -> 34
      [] OTHER -> 0]

\* deferred, valid bit set, additional length 5 ends the sense before ASCQ
DeferredSense == [i \in 1..SenseBytes |->
    CASE i = 1 -> 241 [] i = 3 -> 243 [] i = 8 -> 5 [] i = 13 -> 17 [] i = 14 -> 68
      [] OTHER -> 0]

SenseContents == {ZeroSense, CurrentSense, DeferredSense}

memset_sih ==
    [interface_id |-> 0, dxfer_direction |-> 0, cmd_len |-> 0, mx_sb_len |-> 0,
     dxfer_len |-> 0, dxferp |-> "NULL", cmdp |-> "NULL", sbp |-> "NULL",
     timeout |-> 0, status |-> 0, sb_len_wr |-> 0, resid |-> 0, info |-> 0]

\* what malloc may hand out in place of zeroes
GarbageSih ==
    [interface_id |-> 1, dxfer_direction |-> SG_DXFER_TO_DEV, cmd_len |-> 6,
     mx_sb_len |-> 14, dxfer_len |-> 20, dxferp |-> "dataA", cmdp |-> "cdbA",
     sbp |-> "bufA", timeout |-> 1, status |-> 2, sb_len_wr |-> 14, resid |-> 5,
     info |-> 1]

\* one call of the interface and what it gave back
NoCall ==
    [op |-> "none", a1 |-> 0, a2 |-> 0, p |-> "NULL", ret |-> 0, retp |-> "NULL",
     rc |-> 0, opened |-> -1, closed |-> <<>>]

Call(op) == [NoCall EXCEPT !.op = op]

NoDec == [chars |-> ZeroSense, length |-> 0, exit_int |-> 0, done |-> FALSE]

Init ==
    /\ fd \in {-1, FirstFd}
    /\ sih \in {memset_sih, GarbageSih}
    /\ mem = [b \in {"sp_sense", "bufA", "bufB"} |-> ZeroSense]
    /\ osOpen = {}
    /\ errno = 0
    /\ pc = "run"
    /\ last = NoCall
    /\ dec = NoDec

----------------------------------------------------------------------------
(* exits / exite: print why and exit.                                      *)

exits(call) ==
    /\ pc' = "exited"
    /\ last' = call

\* (unsigned char) max
uch(max) == max % 256

\* if (uch != max) exits("large", ...)
large_above_only(max) == max > 255
large(max) == uch(max) # max

\* sp_cdb on a request record: the record it leaves, or "large"
cdb_of(h, cdb, max) ==
    [h EXCEPT !.cmd_len = uch(max), !.cmdp = cdb]

\* sp_data on a request record
data_of(h, data, max) ==
    [h EXCEPT !.dxfer_len = max, !.dxferp = data]

\* sp_sense on a request record
sense_of(h, sense, max) ==
    [h EXCEPT !.mx_sb_len = uch(max), !.sbp = sense]

\* int ms = ((s * 1000) + ((ns + 999999) / 1000 / 1000));
late_ms(s, ns) ==
    WrapAdd(WrapMul(s, 1000), CDiv(CDiv(WrapAdd(ns, 999999), 1000), 1000))

\* the arithmetic of late_ms overflows int, which C leaves undefined
late_overflows(s, ns) ==
    \/ MulOverflows(s, 1000)
    \/ AddOverflows(ns, 999999)
    \/ AddOverflows(WrapMul(s, 1000), CDiv(CDiv(WrapAdd(ns, 999999), 1000), 1000))

\* if ((ms / 1000) != s) exits("large", ...)
late_large(s, ns) == CDiv(late_ms(s, ns), 1000) # s

\* sp_late on a request record
late_of(h, s, ns) == [h EXCEPT !.timeout = late_ms(s, ns)]

\* timeout % 1000 of the unsigned int timeout (2^32 % 1000 = 296)
umod1000(t) == IF t >= 0 THEN t % 1000 ELSE (296 + (t % 1000)) % 1000

\* return ((sih->timeout % 1000) * 1000 * 1000);
late_return(h) == umod1000(h.timeout) * 1000 * 1000

\* the request record sp_zero leaves
zero_of_not_zeroed ==
    late_of(sense_of([sih EXCEPT !.interface_id = 83,
                                 !.dxfer_direction = SG_DXFER_NONE],
                     "sp_sense", USUAL_SENSE),
            USUAL_SECONDS, 0)
zero_of ==
    late_of(sense_of([memset_sih EXCEPT !.interface_id = 83,
                                        !.dxfer_direction = SG_DXFER_NONE],
                     "sp_sense", USUAL_SENSE),
            USUAL_SECONDS, 0)

\* sp_zero exits in sp_sense or in sp_late
zero_large == large(USUAL_SENSE) \/ late_large(USUAL_SECONDS, 0)

----------------------------------------------------------------------------
(* Inputs of the calls and replies of the kernel.                          *)

EIO == 5

\* lengths the caller hands to sp_cdb and sp_sense
Lens == {-256, -1, 0, 1, 6, 14, 127, 128, 255, 256, 257, 511}

\* seconds and nanoseconds the caller hands to sp_late
LateSeconds == {-1, 0, 1, 59, USUAL_SECONDS, 2147482, 2147483, 2147484}
LateNanos   == {0, 1, 999999, 1000000, 1000001, 999000000, 999000001, 999999999}
Versions == {29999, 30000, 30527}
SbLens   == {0, 14, SenseBytes + 1}
Infos    == {0, 1, 2}

\* resid the kernel may report for a request of max bytes
Resids(max) == {-1, 0, 5, max, WrapAdd(max, 1), SP_THRU + SP_DATA_THRU}

\* what ioctl SG_IO may return and leave in the request record and the sense
Replies(max) ==
    [i : {0}, resid : Resids(max), info : Infos, sb_len_wr : SbLens,
     sense : SenseContents]
    \cup [i : {-1}, resid : {-1, 0, 5}, info : {0, 1}, sb_len_wr : {14},
          sense : {CurrentSense}]

\* the same, of a device that answers in one of three ways
FewReplies(max) ==
    {[i |-> 0, resid |-> 0, info |-> 0, sb_len_wr |-> 0, sense |-> ZeroSense],
     [i |-> 0, resid |-> 5, info |-> 1, sb_len_wr |-> 14, sense |-> CurrentSense],
     [i |-> -1, resid |-> -1, info |-> 0, sb_len_wr |-> 0, sense |-> ZeroSense]}

\* the lowest descriptor open() can return, -1 if the process holds MaxOpen
open_fd ==
    IF Cardinality(osOpen) >= MaxOpen THEN -1
    ELSE CHOOSE f \in FirstFd..(FirstFd + MaxOpen) :
            /\ f \notin osOpen
            /\ \A g \in FirstFd..(f - 1) : g \in osOpen

----------------------------------------------------------------------------
(* Disconnect.                                                             *)

sp_close ==
    /\ pc = "run"
    /\ UNCHANGED <<sih, mem, dec>>
    /\ IF fd \in osOpen
       THEN /\ osOpen' = osOpen \ {fd}
            /\ \E i \in {0, -1} :
                 IF i # 0
                 THEN /\ exits([Call("sp_close") EXCEPT !.rc = i])
                      /\ errno' = EIO
                      /\ fd' = fd
                 ELSE /\ fd' = -1
                      /\ last' = [Call("sp_close") EXCEPT !.rc = i, !.closed = <<fd>>]
                      /\ UNCHANGED <<errno, pc>>
       ELSE /\ exits([Call("sp_close") EXCEPT !.rc = -1])
            /\ errno' = EBADF
            /\ UNCHANGED <<fd, osOpen>>

(* Begin a new command, but stay connected.                                *)

sp_zero ==
    /\ pc = "run"
    /\ UNCHANGED <<fd, mem, osOpen, errno, dec>>
    /\ IF zero_large
       THEN /\ exits(Call("sp_zero"))
            /\ sih' = memset_sih
       ELSE /\ sih' = zero_of
            /\ last' = Call("sp_zero")
            /\ pc' = pc

(* Connect and return nonnegative, else decide errno.                      *)

\* if (0 <= i) if (30000 <= version)
version_ok_unread(i, version) == 0 <= i
version_ok(i, version) == 0 <= i /\ MinVersion <= version

sp_open ==
    /\ pc = "run"
    /\ UNCHANGED <<mem, dec>>
    /\ sih' = zero_of
    /\ \E o \in {-1, open_fd} :
         LET call == [Call("sp_open") EXCEPT !.opened = o] IN
         IF o < 0
         THEN /\ fd' = o
              /\ errno' = ENOENT
              /\ last' = [call EXCEPT !.ret = -1]
              /\ UNCHANGED <<osOpen, pc>>
         ELSE \E i \in {-1, 0}, v \in Versions :
                LET version == IF i < 0 THEN 0 ELSE v IN
                IF version_ok(i, version)
                THEN /\ fd' = o
                     /\ osOpen' = osOpen \cup {o}
                     /\ last' = [call EXCEPT !.rc = i, !.a1 = version, !.ret = o]
                     /\ UNCHANGED <<errno, pc>>
                ELSE \E c \in {0, -1} :
                       /\ osOpen' = osOpen
                       /\ IF c # 0
                          THEN /\ exits([call EXCEPT !.rc = c])
                               /\ errno' = EIO
                               /\ fd' = o
                          ELSE /\ fd' = -1
                               /\ errno' = EINVAL
                               /\ last' = [call EXCEPT !.rc = i, !.a1 = version,
                                                       !.closed = <<o>>, !.ret = -1]
                               /\ pc' = pc

(* Hint from where and how much CDB to copy out, return where.             *)

sp_cdb(cdb, max) ==
    /\ pc = "run"
    /\ UNCHANGED <<fd, mem, osOpen, errno, dec>>
    /\   LET call == [Call("sp_cdb") EXCEPT !.p = cdb, !.a1 = max] IN
         IF large(max)
         THEN /\ exits(call)
              /\ sih' = sih
         ELSE /\ sih' = cdb_of(sih, cdb, max)
              /\ last' = [call EXCEPT !.retp = cdb_of(sih, cdb, max).cmdp]
              /\ pc' = pc

(* Hint where and how much data to copy in or out, return where.           *)

sp_data(data, max) ==
    /\ pc = "run"
    /\ UNCHANGED <<fd, mem, osOpen, errno, dec, pc>>
    /\   /\ sih' = data_of(sih, data, max)
         /\ last' = [Call("sp_data") EXCEPT !.p = data, !.a1 = max,
                                            !.retp = data_of(sih, data, max).dxferp]

(* Hint to where and how much sense to copy in, return where.              *)

sp_sense(sense, max) ==
    /\ pc = "run"
    /\ UNCHANGED <<fd, mem, osOpen, errno, dec>>
    /\   LET call == [Call("sp_sense") EXCEPT !.p = sense, !.a1 = max] IN
         IF large(max)
         THEN /\ exits(call)
              /\ sih' = sih
         ELSE /\ sih' = sense_of(sih, sense, max)
              /\ last' = [call EXCEPT !.retp = sense_of(sih, sense, max).sbp]
              /\ pc' = pc

(* Hint when to time out and reset, return ns.  Where the arithmetic      *)
(* overflows int the build either wraps or takes the test to have passed.  *)

sp_late(s, ns) ==
    LET call == [Call("sp_late") EXCEPT !.a1 = s, !.a2 = ns] IN
    /\ pc = "run"
    /\ UNCHANGED <<fd, mem, osOpen, errno, dec>>
    /\ \E exit \in {late_large(s, ns)} \cup
                   (IF late_overflows(s, ns) THEN {FALSE} ELSE {}) :
         IF exit
         THEN /\ exits(call)
              /\ sih' = sih
         ELSE /\ sih' = late_of(sih, s, ns)
              /\ last' = [call EXCEPT !.ret = late_return(late_of(sih, s, ns))]
              /\ pc' = pc

----------------------------------------------------------------------------
(* Pass thru.  Return zero else positive residue else negative trouble.    *)

\* the chars at sih->sbp
sense_chars(h, m) == IF h.sbp \in DOMAIN m THEN m[h.sbp] ELSE ZeroSense

\* if (i < 0)
ioctl_failed_never(i) == FALSE
ioctl_failed(i) == i < 0

\* if ((residue < 0) || (max < residue))
data_not_counted_negative_only(h) == h.resid < 0
data_not_counted(h) == h.resid < 0 \/ h.dxfer_len < h.resid

\* if ((sih->info & SG_INFO_OK_MASK) != SG_INFO_OK)
info_not_ok_unmasked(h) == h.info # SG_INFO_OK
info_not_ok(h) == BitAnd(h.info, SG_INFO_OK_MASK) # SG_INFO_OK

\* if ((sense_enough < 0) || (sense_max < sense_enough))
sense_not_counted_off_by_one(h) == h.sb_len_wr < 0 \/ h.mx_sb_len <= h.sb_len_wr
sense_not_counted(h) == h.sb_len_wr < 0 \/ h.mx_sb_len < h.sb_len_wr

\* Compress much into the exit int: i is what ioctl SG_IO returned, h and m
\* the request record and the memory it left.
speak_exit(i, h, m) ==
    LET residue == h.resid
        sense_enough == h.sb_len_wr
    IN  IF ioctl_failed(i) THEN SP_THRU
        ELSE IF data_not_counted(h) THEN BitOr(SP_THRU, SP_DATA_THRU)
        ELSE IF info_not_ok(h)
             THEN IF sense_not_counted(h)
                  THEN BitOr(SP_THRU, SP_SENSE_THRU)
                  ELSE LET e == BitOr(SP_THRU,
                                      int_from_sense(sense_chars(h, m), sense_enough))
                       IN  IF 0 # residue THEN BitOr(e, SP_RESIDUE) ELSE e
        ELSE residue

\* the sense the kernel copies out: at most mx_sb_len chars at sbp
sense_copied(h, m, c) ==
    IF h.sbp \in DOMAIN m
    THEN [m EXCEPT ![h.sbp] =
             [k \in 1..SenseBytes |-> IF k <= h.mx_sb_len THEN c[k] ELSE m[h.sbp][k]]]
    ELSE m

\* ioctl(fd, SG_IO, sih) and the rest of sp_speak on the request record h
speak(h, call, Rs) ==
    /\ pc = "run"
    /\ UNCHANGED <<fd, osOpen, dec, pc>>
    /\ IF fd \notin osOpen
       THEN /\ sih' = h
            /\ mem' = mem
            /\ errno' = EBADF
            /\ last' = [call EXCEPT !.rc = -1, !.ret = speak_exit(-1, h, mem)]
       ELSE \E r \in Rs :
              LET h2 == [h EXCEPT !.resid = r.resid, !.info = r.info,
                                  !.status = IF r.info % 2 = 1 THEN 2 ELSE 0,
                                  !.sb_len_wr = r.sb_len_wr]
                  m2 == sense_copied(h, mem, r.sense)
              IN  /\ sih' = h2
                  /\ mem' = m2
                  /\ errno' = IF r.i < 0 THEN EIO ELSE errno
                  /\ last' = [call EXCEPT !.rc = r.i, !.ret = speak_exit(r.i, h2, m2)]

sp_speak(Rs) == speak(sih, Call("sp_speak"), Rs)

(* Pass thru and copy zero or more bytes of data in.                       *)

sp_read(to, max, Rs) ==
    speak([data_of(sih, to, max) EXCEPT !.dxfer_direction = SG_DXFER_FROM_DEV],
          [Call("sp_read") EXCEPT !.p = to, !.a1 = max], Rs)

(* Pass thru and copy zero or more bytes of data out.                      *)

sp_write(from, max, Rs) ==
    speak([data_of(sih, from, max) EXCEPT !.dxfer_direction = SG_DXFER_TO_DEV],
          [Call("sp_write") EXCEPT !.p = from, !.a1 = max], Rs)

(* Get the last length of data copied in.                                  *)

sp_data_enough ==
    /\ pc = "run"
    /\ UNCHANGED <<fd, sih, mem, osOpen, errno, dec, pc>>
    /\ last' = [Call("sp_data_enough") EXCEPT
                   !.ret = WrapAdd(sih.dxfer_len, WrapNeg(sih.resid))]

(* Get the last length of sense copied in.                                 *)

sp_sense_enough ==
    /\ pc = "run"
    /\ UNCHANGED <<fd, sih, mem, osOpen, errno, dec, pc>>
    /\ last' = [Call("sp_sense_enough") EXCEPT !.ret = sih.sb_len_wr]

----------------------------------------------------------------------------
(* The session: every call of the interface, in any order, of a caller     *)
(* with few lengths and a device with few answers.                         *)

Next ==
    \/ sp_open
    \/ sp_close
    \/ sp_zero
    \/ \E max \in {6, 256} : sp_cdb("cdbA", max)
    \/ sp_data("dataA", 20)
    \/ \E max \in {14, 256} : sp_sense("bufA", max)
    \/ \E s \in {0, 2147484} : sp_late(s, 1)
    \/ sp_speak(FewReplies(sih.dxfer_len))
    \/ sp_read("dataA", 20, FewReplies(20))
    \/ sp_write("dataB", 20, FewReplies(20))
    \/ sp_data_enough
    \/ sp_sense_enough

Spec == Init /\ [][Next]_vars

----------------------------------------------------------------------------
(* The transfers: a session that sp_open connected or failed to connect,   *)
(* a caller that reads and writes, a device that answers anything.         *)

InitTransfer ==
    /\ \/ fd = FirstFd /\ osOpen = {FirstFd} /\ errno = 0
       \/ fd = -1 /\ osOpen = {} /\ errno = ENOENT
    /\ sih = zero_of
    /\ mem = [b \in {"sp_sense", "bufA", "bufB"} |-> ZeroSense]
    /\ pc = "run"
    /\ last = NoCall
    /\ dec = NoDec

NextTransfer ==
    \/ sp_zero
    \/ \E max \in {0, 255} : sp_sense("bufA", max)
    \/ \E max \in {20, SP_RESIDUE} : sp_read("dataA", max, Replies(max))
    \/ sp_write("dataB", 0, Replies(0))

SpecTransfer == InitTransfer /\ [][NextTransfer]_vars

----------------------------------------------------------------------------
(* What the claims speak of.                                               *)

HasBits(x, mask) == BitAnd(x, mask) = mask
NoBits(x, mask) == BitAnd(x, mask) = 0

LowestFlag == SP_DEFERRED

\* the last call was a transfer that returned; sih and mem are as it left them
Transferred == pc = "run" /\ last.op \in {"sp_read", "sp_write", "sp_speak"}

ResidueInRange == 0 <= sih.resid /\ sih.resid <= sih.dxfer_len
CleanStatus == sih.info % 2 = 0
SenseInRange == 0 <= sih.sb_len_wr /\ sih.sb_len_wr <= sih.mx_sb_len
DecodedSense == int_from_sense(sense_chars(sih, mem), sih.sb_len_wr)

\* C1 as claimed: a clean transfer with residue r in 0..max returns exactly r,
\* and neither the failure marker nor any flag bit is in the result.
C1_AsClaimed ==
    (Transferred /\ last.rc >= 0 /\ ResidueInRange /\ CleanStatus)
        => /\ last.ret = sih.resid
           /\ NoBits(last.ret, SP_THRU)
           /\ \A f \in SP_FLAGS : NoBits(last.ret, f)

\* C1 amended: a clean transfer with residue r in 0..max returns exactly r,
\* which is nonnegative and so without the failure marker; no flag bit is in
\* the result when r is less than the lowest flag bit.
C1_ResidueReturned ==
    (Transferred /\ last.rc >= 0 /\ ResidueInRange /\ CleanStatus)
        => /\ last.ret = sih.resid
           /\ last.ret >= 0
           /\ NoBits(last.ret, SP_THRU)
           /\ (sih.resid < LowestFlag => \A f \in SP_FLAGS : NoBits(last.ret, f))

C1_Witness ==
    /\ Transferred /\ last.rc >= 0 /\ CleanStatus
    /\ sih.dxfer_len = 20 /\ sih.resid = 5 /\ last.ret = 5
    /\ sih.info = 2 /\ sih.sb_len_wr = 14
    /\ sense_chars(sih, mem) = CurrentSense

C3_BareFailure ==
    /\ (Transferred /\ last.rc < 0) => last.ret = SP_THRU
    /\ (Transferred /\ last.rc >= 0 /\ sih.resid = 0 /\ ~CleanStatus
           /\ SenseInRange /\ NoBits(DecodedSense, SP_SENSE))
         => last.ret = SP_THRU

C3_Witness ==
    /\ Transferred /\ last.rc < 0 /\ fd \in osOpen
    /\ sih.resid = 5 /\ sih.info = 1 /\ sih.sb_len_wr = 14
    /\ sense_chars(sih, mem) = CurrentSense
    /\ last.ret = SP_THRU

C3_WitnessUnintelligible ==
    /\ Transferred /\ last.rc >= 0 /\ sih.resid = 0 /\ sih.info = 1
    /\ sih.sb_len_wr = 0 /\ last.ret = SP_THRU

\* C4: a transfer with residue in 0..max and unclean status returns the
\* failure marker with the sense not counted flag alone when the count of
\* sense written is out of 0..sense length, else the decoded sense with the
\* nonzero residue flag exactly when the residue is not zero.
C4_UncleanStatus ==
    (Transferred /\ last.rc >= 0 /\ ResidueInRange /\ ~CleanStatus)
        => IF ~SenseInRange
           THEN last.ret = SP_THRU + SP_SENSE_THRU
           ELSE /\ HasBits(last.ret, SP_THRU)
                /\ HasBits(last.ret, SP_RESIDUE) <=> sih.resid # 0
                /\ last.ret - (IF sih.resid # 0 THEN SP_RESIDUE ELSE 0) = DecodedSense

C4_Witness ==
    /\ Transferred /\ last.rc >= 0 /\ ~CleanStatus
    /\ sih.dxfer_len = 20 /\ sih.resid = 5
    /\ sih.mx_sb_len = USUAL_SENSE /\ sih.sb_len_wr = 14
    /\ sense_chars(sih, mem) = CurrentSense
    /\ last.ret = SP_THRU + SP_RESIDUE + SP_SENSE + 5 * 65536 + 33 * 256 + 34

C4_WitnessNotCounted ==
    /\ Transferred /\ last.rc >= 0 /\ ~CleanStatus
    /\ sih.resid = 5 /\ sih.sb_len_wr > sih.mx_sb_len
    /\ last.ret = SP_THRU + SP_SENSE_THRU

----------------------------------------------------------------------------
(* The sense decoder alone: any sense chars of any length, decoded once.   *)

SenseInputs ==
    {[i \in 1..SenseBytes |->
         CASE i = 1 -> b0 [] i = 3 -> b2 [] i = 8 -> b7 [] i = 13 -> bC [] i = 14 -> bD
           [] OTHER -> 0] :
       b0 \in {0, 112, 113, 114, 240, 241}, b2 \in {0, 5, 243},
       b7 \in {0, 1, 4, 5, 6, 10, 255}, bC \in {0, 33, 255}, bD \in {0, 34}}

InitSense ==
    /\ fd = -1
    /\ sih = zero_of
    /\ mem = [b \in {"sp_sense", "bufA", "bufB"} |-> ZeroSense]
    /\ osOpen = {}
    /\ errno = 0
    /\ pc = "run"
    /\ last = NoCall
    /\ dec \in [chars : SenseInputs, length : 0..SenseBytes, exit_int : {0},
                done : {FALSE}]

decode ==
    /\ ~dec.done
    /\ dec' = [dec EXCEPT !.exit_int = int_from_sense(dec.chars, dec.length),
                          !.done = TRUE]
    /\ UNCHANGED <<fd, sih, mem, osOpen, errno, pc, last>>

SpecSense == InitSense /\ [][decode]_vars

Intelligible ==
    dec.length > 2 /\ At(dec.chars, 0) % 128 \in {112, 113}

\* the bits of x under a mask, shifted down to the mask's least bit
Field(x, mask, unit) == BitAnd(x, mask) \div unit

\* C5: the decoder sets the sense decoded flag exactly when the length is
\* above 2 and the low 7 bits of byte 0 are 0x70 or 0x71, else it returns the
\* bare failure marker; with the flag, deferred is set exactly for 0x71 and
\* the Sense Key field is the low 4 bits of byte 2.
C5_SenseDecoded ==
    dec.done =>
        /\ HasBits(dec.exit_int, SP_SENSE) <=> Intelligible
        /\ ~Intelligible => dec.exit_int = SP_THRU
        /\ Intelligible =>
             /\ HasBits(dec.exit_int, SP_DEFERRED) <=> (At(dec.chars, 0) % 128 = 113)
             /\ Field(dec.exit_int, SP_SK, 65536) = At(dec.chars, 2) % 16

C5_Witness ==
    /\ dec.done /\ dec.length = 3 /\ At(dec.chars, 0) = 241 /\ At(dec.chars, 2) = 243
    /\ dec.exit_int = SP_THRU + SP_SENSE + SP_DEFERRED + 3 * 65536

C5_WitnessTwoBytes ==
    /\ dec.done /\ dec.length = 2 /\ At(dec.chars, 0) = 112 /\ At(dec.chars, 2) = 5
    /\ dec.exit_int = SP_THRU

\* the effective length of C6
EffectiveLength ==
    IF dec.length > 7 /\ At(dec.chars, 7) # 0
    THEN IF dec.length < 8 + At(dec.chars, 7) THEN dec.length ELSE 8 + At(dec.chars, 7)
    ELSE dec.length

\* C6: for intelligible sense the ASC field is byte 0xC when the effective
\* length is above 0xC and the ASCQ field byte 0xD when it is above 0xD, else
\* zero, each in its own bits; the 14 bytes 70 00 05 .. 0A .. 21 22 decode to
\* sense decoded, not deferred, Sense Key 5, ASC 0x21, ASCQ 0x22.
C6_AscAscq ==
    (dec.done /\ Intelligible) =>
        LET asc == IF EffectiveLength > 12 THEN At(dec.chars, 12) ELSE 0
            ascq == IF EffectiveLength > 13 THEN At(dec.chars, 13) ELSE 0
        IN  /\ Field(dec.exit_int, SP_ASC, 256) = asc
            /\ Field(dec.exit_int, SP_ASCQ, 1) = ascq
            /\ dec.exit_int = SP_THRU + SP_SENSE
                    + (IF At(dec.chars, 0) % 128 = 113 THEN SP_DEFERRED ELSE 0)
                    + (At(dec.chars, 2) % 16) * 65536 + asc * 256 + ascq
            /\ (dec.chars = CurrentSense /\ dec.length = 14) =>
                   dec.exit_int = SP_THRU + SP_SENSE + 5 * 65536 + 33 * 256 + 34

C6_Witness ==
    /\ dec.done /\ dec.chars = CurrentSense /\ dec.length = 14
    /\ dec.exit_int = SP_THRU + SP_SENSE + 5 * 65536 + 33 * 256 + 34

C6_WitnessClamped ==
    /\ dec.done /\ Intelligible /\ dec.length = 14 /\ At(dec.chars, 7) = 5
    /\ At(dec.chars, 12) = 33 /\ At(dec.chars, 13) = 34
    /\ Field(dec.exit_int, SP_ASC, 256) = 33
    /\ Field(dec.exit_int, SP_ASCQ, 1) = 0

----------------------------------------------------------------------------
(* The timeout alone: a caller that sets any timeout and begins commands.  *)

NextLate ==
    \/ sp_zero
    \/ \E s \in LateSeconds, ns \in LateNanos : sp_late(s, ns)

SpecLate == Init /\ [][NextLate]_vars

\* the last call was sp_late(s, ns) with s * 1000 + 1000 in the range of int
\* and ns a count of nanoseconds below one second
LateInRange ==
    /\ last.op = "sp_late"
    /\ 0 <= last.a1 /\ last.a1 <= (MaxInt - 1000) \div 1000
    /\ 0 <= last.a2 /\ last.a2 <= 999999999

\* C7 as claimed: sp_late(s, ns) of such s and ns returns, stores
\* s * 1000 + ceil(ns / 1000000) ms and returns (ms % 1000) * 1000000.
C7_AsClaimed ==
    LateInRange =>
        LET ms == last.a1 * 1000 + (last.a2 + 999999) \div 1000000
        IN  /\ pc = "run"
            /\ sih.timeout = ms
            /\ last.ret = (ms % 1000) * 1000000

\* what the code does of C7: the same, for ns up to 999000000
C7_UpTo999ms ==
    (LateInRange /\ last.a2 <= 999000000) =>
        LET ms == last.a1 * 1000 + (last.a2 + 999999) \div 1000000
        IN  /\ pc = "run"
            /\ sih.timeout = ms
            /\ last.ret = (ms % 1000) * 1000000

\* and for ns above 999000000 the process exits
C7_ExitsAbove999ms ==
    (LateInRange /\ last.a2 > 999000000) => pc = "exited"

----------------------------------------------------------------------------
(* The setters alone: a caller that hands any length to sp_cdb, sp_sense.  *)

NextSetters ==
    \/ sp_zero
    \/ \E cdb \in {"cdbA", "cdbB"}, max \in Lens : sp_cdb(cdb, max)
    \/ \E sense \in {"bufA", "bufB"}, max \in Lens : sp_sense(sense, max)
    \/ \E max \in {0, 20} : sp_data("dataA", max)

SpecSetters == Init /\ [][NextSetters]_vars

\* C8: sp_cdb and sp_sense of a length in 0..255 return, store that length
\* with the pointer and return the pointer stored; of any other length they
\* exit and leave the request record as it was.
C8_Lengths ==
    [][(pc = "run" /\ last'.op \in {"sp_cdb", "sp_sense"}) =>
         IF last'.a1 \in 0..255
         THEN /\ pc' = "run"
              /\ last'.retp = last'.p
              /\ last'.op = "sp_cdb" =>
                     sih'.cmd_len = last'.a1 /\ sih'.cmdp = last'.p
              /\ last'.op = "sp_sense" =>
                     sih'.mx_sb_len = last'.a1 /\ sih'.sbp = last'.p
         ELSE /\ pc' = "exited"
              /\ sih' = sih]_vars

C8_Witness ==
    /\ pc = "exited" /\ last.op = "sp_sense" /\ last.a1 = 256 /\ last.p = "bufB"
    /\ sih.mx_sb_len = 255 /\ sih.sbp = "bufA"
    /\ sih.cmd_len = 255 /\ sih.cmdp = "cdbA"

C8_WitnessNegative ==
    /\ pc = "exited" /\ last.op = "sp_cdb" /\ last.a1 = -1 /\ last.p = "cdbB"
    /\ sih.cmd_len = 0 /\ sih.cmdp = "cdbA"

----------------------------------------------------------------------------
(* Claims of the whole session.                                            *)

\* the one request record a reset leaves: 28 hours are 100800000 ms
ResetRecord ==
    [interface_id |-> 83, dxfer_direction |-> -1, cmd_len |-> 0, mx_sb_len |-> 18,
     dxfer_len |-> 0, dxferp |-> "NULL", cmdp |-> "NULL", sbp |-> "sp_sense",
     timeout |-> 100800000, status |-> 0, sb_len_wr |-> 0, resid |-> 0, info |-> 0]

\* C9: from any state sp_zero returns, leaves fd as it was and the request
\* record in the one reset state, so that nothing of an earlier command is
\* left and a second sp_zero changes nothing.
C9_Reset ==
    [][(pc = "run" /\ last'.op = "sp_zero") =>
         /\ pc' = "run"
         /\ fd' = fd
         /\ sih' = ResetRecord]_vars

C9_Witness ==
    /\ pc = "run" /\ last.op = "sp_zero"
    /\ fd \in osOpen
    /\ mem["sp_sense"] = CurrentSense
    /\ sih = ResetRecord

\* C10: when sp_open returns, it returns the fd it stored and the request
\* record is reset: the descriptor, when the device opened and the version
\* query succeeded with 30000 or more; -1 with fd -1 when the device did not
\* open; -1 with fd -1, errno EINVAL and the descriptor closed once when the
\* version query failed or gave less.  sp_close leaves fd -1 when it returns,
\* and exits when fd is -1 already.
C10_OpenClose ==
    [][/\ (pc' = "run" /\ last'.op = "sp_open") =>
            /\ last'.ret = fd'
            /\ sih' = ResetRecord
            /\ IF last'.opened < 0
               THEN last'.ret = -1 /\ last'.closed = <<>> /\ osOpen' = osOpen
               ELSE IF last'.rc >= 0 /\ last'.a1 >= 30000
               THEN /\ last'.ret = last'.opened
                    /\ last'.closed = <<>>
                    /\ osOpen' = osOpen \cup {last'.opened}
               ELSE /\ last'.ret = -1
                    /\ last'.closed = <<last'.opened>>
                    /\ last'.opened \notin osOpen'
                    /\ errno' = EINVAL
       /\ (pc' = "run" /\ last'.op = "sp_close") =>
            /\ fd' = -1
            /\ last'.closed = <<fd>>
            /\ fd \in osOpen /\ fd \notin osOpen'
       /\ (pc = "run" /\ fd = -1 /\ last'.op = "sp_close") => pc' = "exited"]_vars

C10_Witness ==
    /\ pc = "run" /\ last.op = "sp_open"
    /\ last.opened = FirstFd /\ last.rc >= 0 /\ last.a1 = 29999
    /\ last.closed = <<FirstFd>> /\ fd = -1 /\ errno = EINVAL /\ last.ret = -1
    /\ sih = ResetRecord

C10_WitnessConnected ==
    /\ pc = "run" /\ last.op = "sp_open"
    /\ last.ret = FirstFd /\ fd = FirstFd /\ FirstFd \in osOpen /\ last.a1 = 30000

C10_WitnessCloseExits ==
    /\ pc = "exited" /\ last.op = "sp_close" /\ fd = -1 /\ errno = EBADF

====
